---- MODULE Spec2Model ----
(***************************************************************************)
(* A model of package argon2id (src/argon2id.go): the base64 helpers,      *)
(* HashPassword and VerifyPassword.  Text is a sequence of one-character   *)
(* strings, a byte slice is a sequence of numbers 0..255.                  *)
(***************************************************************************)
EXTENDS Integers, Sequences, FiniteSets, TLC

(***************************************************************************)
(* Characters and bytes                                                    *)
(***************************************************************************)

\* The printable ASCII characters, code 32 first (the double quote, the
\* backslash and the backquote, which no text of the model holds, are written as names).
Ascii ==
 << " ", "!", "<dquote>", "#", "$", "%", "&", "'", "(", ")", "*", "+", ",", "-", ".", "/",
    "0", "1", "2", "3", "4", "5", "6", "7", "8", "9", ":", ";", "<", "=", ">", "?",
    "@", "A", "B", "C", "D", "E", "F", "G", "H", "I", "J", "K", "L", "M", "N", "O",
    "P", "Q", "R", "S", "T", "U", "V", "W", "X", "Y", "Z", "[", "<backslash>", "]", "^", "_",
    "<backquote>", "a", "b", "c", "d", "e", "f", "g", "h", "i", "j", "k", "l", "m", "n", "o",
    "p", "q", "r", "s", "t", "u", "v", "w", "x", "y", "z", "{", "|", "}", "~" >>

\* The line feed and carriage return characters.
LF == "\n"
CR == "\r"

\* The byte value of every character of the model: []byte(string).
ByteOf ==
  [c \in {Ascii[i] : i \in 1..Len(Ascii)} \cup {LF, CR} |->
     IF c = LF THEN 10
     ELSE IF c = CR THEN 13
     ELSE 31 + CHOOSE i \in 1..Len(Ascii) : Ascii[i] = c]

\* []byte(s) of a text s.
Bytes(s) == [i \in 1..Len(s) |-> ByteOf[s[i]]]

\* The alphabet of base64.RawURLEncoding, value 0 first.
URLAlphabet ==
 << "A", "B", "C", "D", "E", "F", "G", "H", "I", "J", "K", "L", "M", "N", "O", "P",
    "Q", "R", "S", "T", "U", "V", "W", "X", "Y", "Z", "a", "b", "c", "d", "e", "f",
    "g", "h", "i", "j", "k", "l", "m", "n", "o", "p", "q", "r", "s", "t", "u", "v",
    "w", "x", "y", "z", "0", "1", "2", "3", "4", "5", "6", "7", "8", "9", "-", "_" >>

URLChars == {URLAlphabet[i] : i \in 1..Len(URLAlphabet)}

\* The decode map of the encoding: the 6-bit value of an alphabet character.
DecodeMap == [c \in URLChars |-> (CHOOSE i \in 1..Len(URLAlphabet) : URLAlphabet[i] = c) - 1]

\* body(v) with v evaluated once: a local variable holding a result.
Bind(v, body(_)) == CHOOSE r \in {body(x) : x \in {v}} : TRUE

(***************************************************************************)
(* EncodeToBase64String / DecodeBase64String                               *)
(***************************************************************************)

\* The encoding of the bytes of b from index i on: three bytes make four
\* characters, a rest of one byte two characters, a rest of two bytes
\* three; no padding.
RECURSIVE EncodeFrom(_, _)
EncodeFrom(b, i) ==
  IF i > Len(b) THEN << >>
  ELSE IF i = Len(b) THEN
    LET val == b[i] * 65536
    IN  << URLAlphabet[(val \div 262144) + 1], URLAlphabet[((val \div 4096) % 64) + 1] >>
  ELSE IF i + 1 = Len(b) THEN
    LET val == b[i] * 65536 + b[i + 1] * 256
    IN  << URLAlphabet[(val \div 262144) + 1], URLAlphabet[((val \div 4096) % 64) + 1],
           URLAlphabet[((val \div 64) % 64) + 1] >>
  ELSE
    LET val == b[i] * 65536 + b[i + 1] * 256 + b[i + 2]
    IN  << URLAlphabet[(val \div 262144) + 1], URLAlphabet[((val \div 4096) % 64) + 1],
           URLAlphabet[((val \div 64) % 64) + 1], URLAlphabet[(val % 64) + 1] >>
        \o EncodeFrom(b, i + 3)

\* base64.RawURLEncoding.EncodeToString(b).
EncodeToBase64String(b) == Bind(b, LAMBDA x : EncodeFrom(x, 1))

\* A decoder that keeps line breaks, and so refuses them as any other
\* character outside the alphabet: what C5_AppendOutcome tells apart from
\* the decoder of the code.
KeepNewlines(s) == s

\* The decoder skips '\r' and '\n' wherever they stand.
StripNewlines(s) == SelectSeq(s, LAMBDA c : c # LF /\ c # CR)

\* The bytes of a text of alphabet characters, from index i on: four
\* characters make three bytes, a rest of two one byte, a rest of three two
\* bytes; the unused low bits of a rest are dropped unchecked (the encoding
\* is not strict).
RECURSIVE DecodeQuanta(_, _)
DecodeQuanta(s, i) ==
  IF i + 1 > Len(s) THEN << >>
  ELSE IF i + 1 = Len(s) THEN
    LET val == DecodeMap[s[i]] * 262144 + DecodeMap[s[i + 1]] * 4096
    IN  << val \div 65536 >>
  ELSE IF i + 2 = Len(s) THEN
    LET val == DecodeMap[s[i]] * 262144 + DecodeMap[s[i + 1]] * 4096
               + DecodeMap[s[i + 2]] * 64
    IN  << val \div 65536, (val \div 256) % 256 >>
  ELSE
    LET val == DecodeMap[s[i]] * 262144 + DecodeMap[s[i + 1]] * 4096
               + DecodeMap[s[i + 2]] * 64 + DecodeMap[s[i + 3]]
    IN  << val \div 65536, (val \div 256) % 256, val % 256 >>
        \o DecodeQuanta(s, i + 4)

\* base64.RawURLEncoding.DecodeString: [err, bytes].  A character outside
\* the alphabet ('=' included: there is no padding character) and a rest of
\* one character are a CorruptInputError.
DecodeBase64String(s) ==
  Bind(StripNewlines(s), LAMBDA t :
    IF (\E i \in 1..Len(t) : t[i] \notin URLChars) \/ Len(t) % 4 = 1
    THEN [err |-> "CorruptInputError", bytes |-> << >>]
    ELSE [err |-> "nil", bytes |-> DecodeQuanta(t, 1)])

(***************************************************************************)
(* fmt.Sprintf("%d") and fmt.Sscanf("%d")                                  *)
(***************************************************************************)

DecimalDigits == << "0", "1", "2", "3", "4", "5", "6", "7", "8", "9" >>

DigitChars == {DecimalDigits[i] : i \in 1..Len(DecimalDigits)}

DigitValue == [c \in DigitChars |-> (CHOOSE i \in 1..Len(DecimalDigits) : DecimalDigits[i] = c) - 1]

\* The verb %d of Sprintf on an unsigned value: its decimal digits.
RECURSIVE FormatUint(_)
FormatUint(n) ==
  IF n < 10 THEN << DecimalDigits[n + 1] >>
  ELSE FormatUint(n \div 10) \o << DecimalDigits[(n % 10) + 1] >>

\* The largest values of the scanned types, as decimal text: uint8 (Threads),
\* uint32 (Memory, Time) and int (version; 64 bits wide).
MaxUint8Text == << "2", "5", "5" >>
MaxUint32Text == << "4", "2", "9", "4", "9", "6", "7", "2", "9", "5" >>
MaxInt64Text ==
  << "9", "2", "2", "3", "3", "7", "2", "0", "3", "6", "8", "5", "4", "7", "7", "5", "8", "0", "7" >>
MinInt64Text ==
  << "9", "2", "2", "3", "3", "7", "2", "0", "3", "6", "8", "5", "4", "7", "7", "5", "8", "0", "8" >>

\* The digits d without their leading zeros (one digit is kept).
RECURSIVE StripZeros(_)
StripZeros(d) ==
  IF Len(d) > 1 /\ d[1] = "0" THEN StripZeros(Tail(d)) ELSE d

\* Whether the digits a denote a larger number than the digits b of the
\* same length, decided from index i on by the first differing digit.
RECURSIVE DigitsGreaterFrom(_, _, _)
DigitsGreaterFrom(a, b, i) ==
  IF i > Len(a) THEN FALSE
  ELSE IF a[i] # b[i] THEN DigitValue[a[i]] > DigitValue[b[i]]
  ELSE DigitsGreaterFrom(a, b, i + 1)

\* Whether the digits a denote a larger number than the digits b (neither
\* has leading zeros): the longer one is larger.
DigitsGreater(a, b) ==
  IF Len(a) # Len(b) THEN Len(a) > Len(b) ELSE DigitsGreaterFrom(a, b, 1)

\* The number the digit text d denotes, from index i on, acc being the
\* number the digits before i denote.
RECURSIVE DigitsValueFrom(_, _, _)
DigitsValueFrom(d, i, acc) ==
  IF i > Len(d) THEN acc ELSE DigitsValueFrom(d, i + 1, acc * 10 + DigitValue[d[i]])

DigitsValue(d) == DigitsValueFrom(d, 1, 0)

\* strconv.ParseUint(tok, 10, 64) and the bit-size check of scanUint:
\* an underscore is a syntax error in base 10, a value above max overflows.
ParseUint(tok, max) ==
  IF \E i \in 1..Len(tok) : tok[i] \notin DigitChars
  THEN [err |-> "invalid syntax", val |-> 0]
  ELSE IF Bind(StripZeros(tok), LAMBDA d : DigitsGreater(d, max))
  THEN [err |-> "integer overflow", val |-> 0]
  ELSE [err |-> "nil", val |-> DigitsValue(tok)]

\* strconv.ParseInt(tok, 10, 64) and the bit-size check of scanInt; tok may
\* start with a sign.
ParseInt(tok) ==
  LET neg == Len(tok) > 0 /\ tok[1] = "-"
      signed == Len(tok) > 0 /\ tok[1] \in {"+", "-"}
      digits == IF signed THEN SubSeq(tok, 2, Len(tok)) ELSE tok
  IN  Bind(ParseUint(digits, IF neg THEN MinInt64Text ELSE MaxInt64Text), LAMBDA u :
        IF u.err # "nil" THEN u
        ELSE [err |-> "nil", val |-> IF neg THEN 0 - u.val ELSE u.val])

\* isSpace of package fmt, on the characters of the model, the newline
\* (which SkipSpace treats before it asks isSpace) left out.
IsSpace(c) == c \in {" ", CR}

\* (*ss).SkipSpace under Sscanf (nlIsSpace is false): [err, pos], pos the
\* index of the next character to read.
RECURSIVE SkipSpace(_, _)
SkipSpace(s, pos) ==
  IF pos > Len(s) THEN [err |-> "nil", pos |-> pos]
  ELSE IF s[pos] = LF THEN [err |-> "unexpected newline", pos |-> pos]
  ELSE IF IsSpace(s[pos]) THEN SkipSpace(s, pos + 1)
  ELSE [err |-> "nil", pos |-> pos]

\* The characters scanNumber accepts for the verb %d ("0123456789_").
NumberChars == DigitChars \cup {"_"}

\* The index after the run of number characters that starts at pos.
RECURSIVE NumberEnd(_, _)
NumberEnd(s, pos) ==
  IF pos <= Len(s) /\ s[pos] \in NumberChars THEN NumberEnd(s, pos + 1) ELSE pos

\* (*ss).scanNumber: the token must start with a number character.
ScanNumber(s, pos) ==
  IF pos > Len(s) THEN [err |-> "EOF", pos |-> pos]
  ELSE IF s[pos] \notin NumberChars THEN [err |-> "expected integer", pos |-> pos]
  ELSE [err |-> "nil", pos |-> NumberEnd(s, pos)]

\* The verb %d into a uint8 or uint32: (*ss).scanUint after doScanf's
\* SkipSpace.  [err, val, pos].
ScanUint(s, pos, max) ==
  Bind(SkipSpace(s, pos), LAMBDA sp :
    IF sp.err # "nil" THEN [err |-> sp.err, val |-> 0, pos |-> sp.pos]
    ELSE IF sp.pos > Len(s) THEN [err |-> "EOF", val |-> 0, pos |-> sp.pos]
    ELSE Bind(ScanNumber(s, sp.pos), LAMBDA n :
      IF n.err # "nil" THEN [err |-> n.err, val |-> 0, pos |-> n.pos]
      ELSE Bind(ParseUint(SubSeq(s, sp.pos, n.pos - 1), max), LAMBDA u :
        [err |-> u.err, val |-> u.val, pos |-> n.pos])))

\* The verb %d into an int: (*ss).scanInt after doScanf's SkipSpace; a
\* leading sign is accepted into the token.
ScanInt(s, pos) ==
  Bind(SkipSpace(s, pos), LAMBDA sp :
    IF sp.err # "nil" THEN [err |-> sp.err, val |-> 0, pos |-> sp.pos]
    ELSE IF sp.pos > Len(s) THEN [err |-> "EOF", val |-> 0, pos |-> sp.pos]
    ELSE Bind(ScanNumber(s, IF s[sp.pos] \in {"+", "-"} THEN sp.pos + 1 ELSE sp.pos),
              LAMBDA n :
      IF n.err # "nil" THEN [err |-> n.err, val |-> 0, pos |-> n.pos]
      ELSE Bind(ParseInt(SubSeq(s, sp.pos, n.pos - 1)), LAMBDA i :
        [err |-> i.err, val |-> i.val, pos |-> n.pos])))

\* (*ss).advance over the literal characters of a format, lit from index k
\* on: each must be the next character of the input.
RECURSIVE MatchLiteralFrom(_, _, _, _)
MatchLiteralFrom(s, pos, lit, k) ==
  IF k > Len(lit) THEN [err |-> "nil", pos |-> pos]
  ELSE IF pos > Len(s) THEN [err |-> "unexpected EOF", pos |-> pos]
  ELSE IF s[pos] # lit[k] THEN [err |-> "input does not match format", pos |-> pos]
  ELSE MatchLiteralFrom(s, pos + 1, lit, k + 1)

MatchLiteral(s, pos, lit) == MatchLiteralFrom(s, pos, lit, 1)

\* The errors fmt.Sscanf returns in the model.
ScanErrors ==
  {"EOF", "unexpected EOF", "unexpected newline", "expected integer",
   "input does not match format", "invalid syntax", "integer overflow"}

\* fmt.Sscanf(seg, "v=%d", &version): [err, version].  Input left after
\* the last verb is not looked at.
ScanVersion(seg) ==
  Bind(MatchLiteral(seg, 1, << "v", "=" >>), LAMBDA l :
    IF l.err # "nil" THEN [err |-> l.err, version |-> 0]
    ELSE Bind(ScanInt(seg, l.pos), LAMBDA v : [err |-> v.err, version |-> v.val]))

\* The result of a failed scan of the parameter segment.
ScanParamsError(e) == [err |-> e, Memory |-> 0, Time |-> 0, Threads |-> 0]

\* fmt.Sscanf(seg, "m=%d,t=%d,p=%d", &p.Memory, &p.Time, &p.Threads):
\* [err, Memory, Time, Threads].  Input left after the last verb is not
\* looked at.
ScanParams(seg) ==
  Bind(MatchLiteral(seg, 1, << "m", "=" >>), LAMBDA l1 :
    IF l1.err # "nil" THEN ScanParamsError(l1.err)
    ELSE Bind(ScanUint(seg, l1.pos, MaxUint32Text), LAMBDA m :
    IF m.err # "nil" THEN ScanParamsError(m.err)
    ELSE Bind(MatchLiteral(seg, m.pos, << ",", "t", "=" >>), LAMBDA l2 :
    IF l2.err # "nil" THEN ScanParamsError(l2.err)
    ELSE Bind(ScanUint(seg, l2.pos, MaxUint32Text), LAMBDA t :
    IF t.err # "nil" THEN ScanParamsError(t.err)
    ELSE Bind(MatchLiteral(seg, t.pos, << ",", "p", "=" >>), LAMBDA l3 :
    IF l3.err # "nil" THEN ScanParamsError(l3.err)
    ELSE Bind(ScanUint(seg, l3.pos, MaxUint8Text), LAMBDA p :
    IF p.err # "nil" THEN ScanParamsError(p.err)
    ELSE [err |-> "nil", Memory |-> m.val, Time |-> t.val, Threads |-> p.val]))))))

\* The segments of s from index pos on, start being where the segment that
\* holds pos begins.
RECURSIVE SplitFrom(_, _, _)
SplitFrom(s, start, pos) ==
  IF pos > Len(s) THEN << SubSeq(s, start, Len(s)) >>
  ELSE IF s[pos] = "$" THEN << SubSeq(s, start, pos - 1) >> \o SplitFrom(s, pos + 1, pos + 1)
  ELSE SplitFrom(s, start, pos + 1)

\* strings.Split(s, "$"): the texts between the separators, in order.
Split(s) == SplitFrom(s, 1, 1)

(***************************************************************************)
(* The library primitives the package calls                                *)
(***************************************************************************)

\* argon2.Version (0x13), which HashPassword stamps and VerifyPassword expects.
Version == 19

\* A running checksum of the bytes of b from index i on, h being the
\* checksum of the bytes before i.
RECURSIVE AbsorbFrom(_, _, _)
AbsorbFrom(b, i, h) ==
  IF i > Len(b) THEN h ELSE AbsorbFrom(b, i + 1, (h * 31 + b[i]) % 65521)

Absorb(b) == AbsorbFrom(b, 1, 7)

\* argon2.IDKey panics when time < 1 or threads < 1, and (a nil BLAKE2b
\* digest) when keyLen is 0.
IDKeyPanics(time, threads, keyLen) == time < 1 \/ threads < 1 \/ keyLen < 1

\* argon2.IDKey, by its call contract: a deterministic function of all six
\* arguments that returns keyLen bytes.  The mixing stands for Argon2's.
IDKey(password, salt, time, memory, threads, keyLen) ==
  Bind(Absorb(password) * 3 + Absorb(salt) * 5 + (time % 251) * 7 + (memory % 241) * 11
       + threads * 13 + keyLen * 17,
       LAMBDA h : [i \in 1..keyLen |-> (h + i * 19) % 256])

\* x ^ y and x | y on bytes.
RECURSIVE Xor(_, _)
Xor(x, y) ==
  IF x = 0 /\ y = 0 THEN 0
  ELSE (((x % 2) + (y % 2)) % 2) + 2 * Xor(x \div 2, y \div 2)

RECURSIVE Or(_, _)
Or(x, y) ==
  IF x = 0 /\ y = 0 THEN 0
  ELSE (IF x % 2 = 1 \/ y % 2 = 1 THEN 1 ELSE 0) + 2 * Or(x \div 2, y \div 2)

(***************************************************************************)
(* The package: its variables, HashPassword and VerifyPassword             *)
(***************************************************************************)

VARIABLES
  DefaultOptions,   \* the package-level variable (the Options it points to)
  calls             \* the invocations in flight, by call id

vars == << DefaultOptions, calls >>

\* The value DefaultOptions is declared with.
DefaultOptionsValue == [Time |-> 1, Memory |-> 64 * 1024, Threads |-> 4, KeyLen |-> 32]

\* Options{}: the zero value VerifyPassword starts p with.
ZeroOptions == [Time |-> 0, Memory |-> 0, Threads |-> 0, KeyLen |-> 0]

\* The text "argon2id".
Argon2idText == << "a", "r", "g", "o", "n", "2", "i", "d" >>

\* A fresh invocation: its arguments, its position and its locals.  optsRef
\* says whether the options pointer is DefaultOptions or the caller's own
\* Options (opts); origin records how the arguments were made.
NewCall(op, password, salt, optsRef, opts, key, origin) ==
  [op |-> op, password |-> password, salt |-> salt, optsRef |-> optsRef, opts |-> opts,
   key |-> key, origin |-> origin,
   pc |-> IF op = "hash" THEN "checkInputs" ELSE "require",
   decodedKey |-> << >>, version |-> Version, p |-> ZeroOptions,
   saltBytes |-> << >>, hash |-> << >>, control |-> << >>,
   i |-> 1, v |-> 0, cmpSteps |-> 0, checks |-> << >>, derived |-> 0,
   retKey |-> << >>, err |-> "nil"]

\* return: the invocation ends with this result.
Return(c, retKey, err) == [c EXCEPT !.pc = "done", !.retKey = retKey, !.err = err]

\* The emptiness checks with the salt looked at first: the fault
\* C3_HashPasswordReference tells apart from the code.
HashCheckInputsSaltFirst(c) ==
  IF c.salt = << >> THEN Return(c, << >>, "ErrSaltRequired")
  ELSE IF c.password = << >> THEN Return(c, << >>, "ErrPasswordRequired")
  ELSE [c EXCEPT !.pc = "derive"]

\* HashPassword, lines 74-80: the two emptiness checks.
HashCheckInputsStep(c) ==
  IF c.password = << >> THEN Return(c, << >>, "ErrPasswordRequired")
  ELSE IF c.salt = << >> THEN Return(c, << >>, "ErrSaltRequired")
  ELSE [c EXCEPT !.pc = "derive"]

\* HashPassword, lines 82-85: the key is derived with the options read now
\* (o is what the options pointer holds at this moment).
HashDeriveStep(c, o) ==
  IF IDKeyPanics(o.Time, o.Threads, o.KeyLen) THEN [c EXCEPT !.pc = "panic", !.derived = @ + 1]
  ELSE [c EXCEPT !.pc = "format", !.derived = @ + 1,
                 !.hash = IDKey(Bytes(c.password), Bytes(c.salt),
                                o.Time, o.Memory, o.Threads, o.KeyLen)]

\* The format with the operands of m and t exchanged: the fault
\* C1_RoundTrip tells apart from the code.
FormatKeySwapped(version, memory, time, threads, b64Salt, b64Hash) ==
  << "$" >> \o Argon2idText \o << "$", "v", "=" >> \o FormatUint(version)
  \o << "$", "m", "=" >> \o FormatUint(time)
  \o << ",", "t", "=" >> \o FormatUint(memory)
  \o << ",", "p", "=" >> \o FormatUint(threads)
  \o << "$" >> \o b64Salt \o << "$" >> \o b64Hash

\* The Sprintf format "$argon2id$v=%d$m=%d,t=%d,p=%d$%s$%s" applied to its
\* six operands.
FormatKey(version, memory, time, threads, b64Salt, b64Hash) ==
  << "$" >> \o Argon2idText \o << "$", "v", "=" >> \o FormatUint(version)
  \o << "$", "m", "=" >> \o FormatUint(memory)
  \o << ",", "t", "=" >> \o FormatUint(time)
  \o << ",", "p", "=" >> \o FormatUint(threads)
  \o << "$" >> \o b64Salt \o << "$" >> \o b64Hash

\* HashPassword, lines 87-95: salt and hash are encoded and the key is
\* formatted with the options read now.
HashFormatStep(c, o) ==
  LET b64Salt == EncodeToBase64String(Bytes(c.salt))
      b64Hash == EncodeToBase64String(c.hash)
  IN  Return(c, FormatKey(Version, o.Memory, o.Time, o.Threads, b64Salt, b64Hash), "nil")

\* A check of VerifyPassword's pipeline is entered.
Enter(c, check) == [c EXCEPT !.checks = Append(@, check)]

\* VerifyPassword, lines 101-107: the two emptiness checks.
VerifyRequireStep(c) ==
  IF c.password = << >> THEN Return(Enter(c, "password"), << >>, "ErrPasswordRequired")
  ELSE IF c.key = << >>
  THEN Return(Enter(Enter(c, "password"), "key"), << >>, "ErrArgon2KeyRequired")
  ELSE [Enter(Enter(c, "password"), "key") EXCEPT !.pc = "split"]

\* The segment check with the algorithm identifier looked at too: the
\* fault C10_PrefixIgnored tells apart from the code.
VerifySplitStepChecksName(c) ==
  LET decodedKey == Split(c.key)
      d == Enter(c, "segments")
  IN  IF Len(decodedKey) # 6 \/ decodedKey[2] # Argon2idText
      THEN Return(d, << >>, "ErrInvalidKeyLength")
      ELSE [d EXCEPT !.pc = "version", !.decodedKey = decodedKey]

\* VerifyPassword, lines 109-112.
VerifySplitStep(c) ==
  LET decodedKey == Split(c.key)
      d == Enter(c, "segments")
  IN  IF Len(decodedKey) # 6 THEN Return(d, << >>, "ErrInvalidKeyLength")
      ELSE [d EXCEPT !.pc = "version", !.decodedKey = decodedKey]

\* The version VerifyPassword accepts.
ExpectedVersion == Version

\* The version step without the comparison with the accepted version: the
\* fault C4_Pipeline tells apart from the code.
VerifyVersionStepUnchecked(c) ==
  LET r == ScanVersion(c.decodedKey[3])
      d == Enter(c, "versionParse")
  IN  IF r.err # "nil" THEN Return(d, << >>, r.err)
      ELSE [Enter(d, "versionMatch") EXCEPT !.pc = "params", !.version = r.version]

\* VerifyPassword, lines 114-123.
VerifyVersionStep(c) ==
  LET r == ScanVersion(c.decodedKey[3])
      d == Enter(c, "versionParse")
  IN  IF r.err # "nil" THEN Return(d, << >>, r.err)
      ELSE IF r.version # ExpectedVersion
      THEN Return([Enter(d, "versionMatch") EXCEPT !.version = r.version],
                  << >>, "ErrArgonVersionMismatch")
      ELSE [Enter(d, "versionMatch") EXCEPT !.pc = "params", !.version = r.version]

\* VerifyPassword, lines 125-129.
VerifyParamsStep(c) ==
  LET r == ScanParams(c.decodedKey[4])
      d == Enter(c, "paramsParse")
  IN  IF r.err # "nil" THEN Return(d, << >>, r.err)
      ELSE [d EXCEPT !.pc = "salt",
                     !.p = [@ EXCEPT !.Memory = r.Memory, !.Time = r.Time,
                                     !.Threads = r.Threads]]

\* VerifyPassword, lines 131-134.
VerifySaltStep(c) ==
  LET r == DecodeBase64String(c.decodedKey[5])
      d == Enter(c, "saltDecode")
  IN  IF r.err # "nil" THEN Return(d, << >>, r.err)
      ELSE [d EXCEPT !.pc = "hash", !.saltBytes = r.bytes]

\* VerifyPassword, lines 136-141.
VerifyHashStep(c) ==
  LET r == DecodeBase64String(c.decodedKey[6])
      d == Enter(c, "hashDecode")
  IN  IF r.err # "nil" THEN Return(d, << >>, r.err)
      ELSE [d EXCEPT !.pc = "rederive", !.hash = r.bytes, !.p = [@ EXCEPT !.KeyLen = Len(r.bytes)]]

\* VerifyPassword, lines 143-146.
VerifyDeriveStep(c) ==
  IF IDKeyPanics(c.p.Time, c.p.Threads, c.p.KeyLen)
  THEN [c EXCEPT !.pc = "panic", !.derived = @ + 1]
  ELSE [c EXCEPT !.pc = "compare", !.derived = @ + 1,
                 !.control = IDKey(Bytes(c.password), c.saltBytes,
                                   c.p.Time, c.p.Memory, c.p.Threads, c.p.KeyLen)]

\* A loop that stops at the first pair of bytes that differ: the fault
\* C9_ConstantTime tells apart from the code.
CompareHasNextShortCircuit(c) ==
  Len(c.hash) = Len(c.control) /\ c.i <= Len(c.hash) /\ c.v = 0

\* VerifyPassword, line 148, inside subtle.ConstantTimeCompare(hash,
\* control): whether its loop has another byte pair to fold.  There is none
\* when the lengths differ (it returns 0 at once).
CompareHasNext(c) == Len(c.hash) = Len(c.control) /\ c.i <= Len(c.hash)

\* One round of the loop: v |= x[i] ^ y[i].
VerifyCompareByteStep(c) ==
  [c EXCEPT !.v = Or(c.v, Xor(c.hash[c.i], c.control[c.i])), !.i = @ + 1, !.cmpSteps = @ + 1]

\* VerifyPassword, lines 148-152: the loop is over; ConstantTimeCompare
\* returns 1 when the lengths are equal and v is 0.
VerifyCompareEndStep(c) ==
  IF Len(c.hash) = Len(c.control) /\ c.v = 0 THEN Return(Enter(c, "compare"), << >>, "nil")
  ELSE Return(Enter(c, "compare"), << >>, "ErrHashNotEqualPassword")

\* What the options pointer of c points to when DefaultOptions holds d.
Deref(c, d) == IF c.optsRef = "DefaultOptions" THEN d ELSE c.opts

\* One step of an invocation that runs alone.
StepCall(c, d) ==
  CASE c.pc = "checkInputs" -> HashCheckInputsStep(c)
    [] c.pc = "derive"      -> HashDeriveStep(c, Deref(c, d))
    [] c.pc = "format"      -> HashFormatStep(c, Deref(c, d))
    [] c.pc = "require"     -> VerifyRequireStep(c)
    [] c.pc = "split"       -> VerifySplitStep(c)
    [] c.pc = "version"     -> VerifyVersionStep(c)
    [] c.pc = "params"      -> VerifyParamsStep(c)
    [] c.pc = "salt"        -> VerifySaltStep(c)
    [] c.pc = "hash"        -> VerifyHashStep(c)
    [] c.pc = "rederive"    -> VerifyDeriveStep(c)
    [] c.pc = "compare"     -> IF CompareHasNext(c) THEN VerifyCompareByteStep(c)
                               ELSE VerifyCompareEndStep(c)

\* An invocation run from c to its end with nothing else running.
RECURSIVE RunAlone(_, _)
RunAlone(c, d) ==
  IF c.pc \in {"done", "panic"} THEN c
  ELSE Bind(StepCall(c, d), LAMBDA n : RunAlone(n, d))

NoOrigin == [kind |-> "given", password |-> << >>, salt |-> << >>, opts |-> ZeroOptions,
             suffix |-> << >>]

\* HashPassword(password, salt, &options) run alone: [key, err].
HashPassword(password, salt, options) ==
  Bind(RunAlone(NewCall("hash", password, salt, "local", options, << >>, NoOrigin), options),
       LAMBDA c : [key |-> c.retKey, err |-> c.err])

\* VerifyPassword(password, key) run alone: the error, "nil" for none.
VerifyPassword(password, key) ==
  RunAlone(NewCall("verify", password, << >>, "local", ZeroOptions, key, NoOrigin),
           DefaultOptionsValue).err

(***************************************************************************)
(* The arguments the invocations are made with                             *)
(***************************************************************************)

\* The bounds of the options HashPassword is called with, and the number of
\* invocations that run concurrently.
MaxTime == 2
MaxMemory == 2
MaxThreads == 2
MaxKeyLen == 3
NumCalls == 2

\* Options within the bounds; every field is positive, as the Options of a
\* caller are.
BoundedOptions ==
  [Time : 1..MaxTime, Memory : 1..MaxMemory, Threads : 1..MaxThreads, KeyLen : 1..MaxKeyLen]

\* Options at the upper end of the field types (Threads is a uint8; Time
\* and Memory are as large as the model's numbers go).
EdgeOptions == [Time |-> 2147483647, Memory |-> 2147483647, Threads |-> 255, KeyLen |-> 4]

Passwords == { << >>, << "p", "w" >>, << "p", "x" >> }

Salts == { << >>, << "s" >>, << "s", "a", "l", "t" >> }

\* The password, salt and options of the reference credential.
RefPassword == << "p", "w" >>
RefSalt == << "s" >>
RefOptions == [Time |-> 1, Memory |-> 1, Threads |-> 1, KeyLen |-> 2]

RefKey == HashPassword(RefPassword, RefSalt, RefOptions).key

RefSegs == Split(RefKey)

\* A character appended to a stored credential.
AppendChars == {"1", "A", "_", "=", "$", " ", LF, CR}

\* segs joined with "$" between them.
RECURSIVE Join(_)
Join(segs) ==
  IF Len(segs) = 0 THEN << >>
  ELSE IF Len(segs) = 1 THEN segs[1]
  ELSE segs[1] \o << "$" >> \o Join(Tail(segs))

\* Version segments: well formed, with another version, with a sign, zeros,
\* spaces or text around the number, and malformed.
VersionSegs ==
  {
    << "v", "=", "1", "9" >>,
    << "v", "=", "1" >>,
    << "v", "=", "2", "0" >>,
    << "v", "=", "-", "1", "9" >>,
    << "v", "=", "+", "1", "9" >>,
    << "v", "=", "0", "1", "9" >>,
    << "v", "=", " ", "1", "9" >>,
    << "v", "=", "1", "9", "x" >>,
    << "v", "=", "1", "9", " " >>,
    << "v", "=", "1", "_", "9" >>,
    << "v", "=" >>,
    << "v", "=", "x" >>,
    << "v", "=", "+" >>,
    << "v", "=", LF, "1", "9" >>,
    << "V", "=", "1", "9" >>,
    << "v", "1", "9" >>,
    << " ", "v", "=", "1", "9" >>,
    << "1", "9" >>,
    << "=" >>,
    << >>
  }

\* Parameter segments: well formed, with text after the last number, with
\* zero and out-of-range values, with fields missing or out of order, and
\* malformed.
ParamSegs ==
  {
    << "m", "=", "1", ",", "t", "=", "1", ",", "p", "=", "1" >>,
    << "m", "=", "2", ",", "t", "=", "1", ",", "p", "=", "1" >>,
    << "m", "=", "1", ",", "t", "=", "1", ",", "p", "=", "1", "x" >>,
    << "m", "=", "1", ",", "t", "=", "1", ",", "p", "=", "1", ",", "k", "=", "9" >>,
    << "m", "=", "0", "1", ",", "t", "=", "1", ",", "p", "=", "1" >>,
    << "m", "=", " ", "1", ",", "t", "=", "1", ",", "p", "=", "1" >>,
    << "m", "=", "1", ",", "t", "=", "0", ",", "p", "=", "1" >>,
    << "m", "=", "1", ",", "t", "=", "1", ",", "p", "=", "0" >>,
    << "m", "=", "0", ",", "t", "=", "1", ",", "p", "=", "1" >>,
    << "m", "=", "1", ",", "t", "=", "1", ",", "p", "=", "2", "5", "5" >>,
    << "m", "=", "1", ",", "t", "=", "1", ",", "p", "=", "2", "5", "6" >>,
    << "m", "=", "4", "2", "9", "4", "9", "6", "7", "2", "9", "6", ",", "t", "=", "1", ",", "p", "=", "1" >>,
    << "m", "=", "1", ",", "t", "=", "4", "2", "9", "4", "9", "6", "7", "2", "9", "6", ",", "p", "=", "1" >>,
    << "t", "=", "1", ",", "m", "=", "1", ",", "p", "=", "1" >>,
    << "m", "=", "1", ",", "p", "=", "1", ",", "t", "=", "1" >>,
    << "m", "=", "1", ",", "t", "=", "1" >>,
    << "m", "=", "1", ",", "t", "=", "1", ",", "p", "=" >>,
    << "m", "=", "1", ",", "t", "=", "1", ",", "p" >>,
    << "m", "=", "x", ",", "t", "=", "1", ",", "p", "=", "1" >>,
    << "m", "=", "1", ",", "t", "=", "+", "1", ",", "p", "=", "1" >>,
    << "m", "=", "1", ",", "t", "=", "-", "1", ",", "p", "=", "1" >>,
    << "m", "=", "1", ",", " ", "t", "=", "1", ",", "p", "=", "1" >>,
    << "m", "=", "1", ";", "t", "=", "1", ";", "p", "=", "1" >>,
    << "m", "=", "1", ",", "t", "=", "1", ",", "p", "=", LF, "1" >>,
    << "=" >>,
    << >>
  }

\* Salt and hash segments: the reference ones, the same with a line break
\* inside, and texts the decoder refuses or decodes to other bytes.
SaltSegs ==
  { RefSegs[5], RefSegs[5] \o << LF >>, << "=" >>, << "c" >>, << "c", "!" >>, << >> }

HashSegs ==
  { RefSegs[6], << CR >> \o RefSegs[6], << "=" >>, << "A" >>, << "A", "A" >>,
    << "A", "A", "A", "A" >>, << >> }

\* What the first two segments of a credential may hold.
Seg1s == { << >>, << "x" >> }
Seg2s == { Argon2idText, << "x" >>, << >> }

\* Credentials of six segments.
CraftedSegs ==
  (Seg1s \X Seg2s \X {RefSegs[3], << "v", "=", "1" >>}
         \X {RefSegs[4], << "m", "=", "1", ",", "t", "=", "1" >>}
         \X {RefSegs[5], << "=" >>} \X {RefSegs[6], << "=" >>})
  \cup
  ({<< >>} \X {Argon2idText} \X VersionSegs
           \X {RefSegs[4], << "m", "=", "1", ",", "t", "=", "0", ",", "p", "=", "1" >>, << "=" >>}
           \X {RefSegs[5], << "=" >>} \X {RefSegs[6], << "=" >>})
  \cup
  ({<< >>} \X {Argon2idText} \X {RefSegs[3], << "v", "=", "1", "9", "x" >>} \X ParamSegs
           \X {RefSegs[5], << "=" >>} \X {RefSegs[6], << "=" >>, << >>})
  \cup
  ({<< >>} \X {Argon2idText} \X {RefSegs[3]} \X {RefSegs[4]} \X SaltSegs \X HashSegs)

\* Credentials that do not have six segments, the empty one among them.
OtherKeys ==
  { << >>,
    << "x" >>,
    << "$" >> \o Argon2idText \o << "$", "v", "=", "1", "9" >>,
    Join(SubSeq(RefSegs, 1, 5)),
    RefKey \o << "$" >> \o RefSegs[6] }

HashCalls ==
  { NewCall("hash", password, salt, "DefaultOptions", ZeroOptions, << >>, NoOrigin)
      : password \in Passwords, salt \in Salts }
  \cup
  { NewCall("hash", x[1], x[2], "local", x[3], << >>, NoOrigin)
      : x \in Passwords \X Salts \X (BoundedOptions \cup {EdgeOptions}) }

\* The password and salt pairs stored credentials are made from.
StoredInputs ==
  { << RefPassword, RefSalt >>, << RefPassword, << "s", "a", "l", "t" >> >>,
    << << "p", "x" >>, RefSalt >> }

\* VerifyPassword on a credential HashPassword made, as it is or with one
\* character appended.
StoredKeyCalls ==
  { NewCall("verify", x[1], << >>, "local", ZeroOptions,
            HashPassword(x[2][1], x[2][2], x[3]).key \o x[4],
            [kind |-> "stored", password |-> x[2][1], salt |-> x[2][2], opts |-> x[3],
             suffix |-> x[4]])
      : x \in Passwords \X StoredInputs
              \X (BoundedOptions \cup {DefaultOptionsValue, EdgeOptions})
              \X ({<< >>} \cup {<< a >> : a \in AppendChars}) }

GivenKeyCalls ==
  { NewCall("verify", x[1], << >>, "local", ZeroOptions, x[2], NoOrigin)
      : x \in Passwords \X ({Join(segs) : segs \in CraftedSegs} \cup OtherKeys) }

(***************************************************************************)
(* The state machine                                                       *)
(***************************************************************************)

\* The ids of the invocations.
CallIds == 1..NumCalls

\* One invocation, of either function, with any of the arguments above.
Init ==
  /\ DefaultOptions = DefaultOptionsValue
  /\ \E c \in HashCalls \cup StoredKeyCalls \cup GivenKeyCalls : calls = [id \in {1} |-> c]

\* Whether invocation id exists and stands at pc.
At(id, pc) == id \in DOMAIN calls /\ calls[id].pc = pc

HashCheckInputs(id) ==
  /\ At(id, "checkInputs")
  /\ calls' = [calls EXCEPT ![id] = HashCheckInputsStep(@)]
  /\ UNCHANGED DefaultOptions

\* A derivation step that writes through the options pointer (it raises
\* Time by one): the fault C8_Independent tells apart from the code.
HashDeriveWritesOptions(id) ==
  /\ At(id, "derive")
  /\ calls' = [calls EXCEPT ![id] = HashDeriveStep(@, Deref(@, DefaultOptions))]
  /\ DefaultOptions' =
       IF calls[id].optsRef = "DefaultOptions"
       THEN [DefaultOptions EXCEPT !.Time = @ + 1]
       ELSE DefaultOptions

HashDerive(id) ==
  /\ At(id, "derive")
  /\ calls' = [calls EXCEPT ![id] = HashDeriveStep(@, Deref(@, DefaultOptions))]
  /\ UNCHANGED DefaultOptions

HashFormat(id) ==
  /\ At(id, "format")
  /\ calls' = [calls EXCEPT ![id] = HashFormatStep(@, Deref(@, DefaultOptions))]
  /\ UNCHANGED DefaultOptions

VerifyRequire(id) ==
  /\ At(id, "require")
  /\ calls' = [calls EXCEPT ![id] = VerifyRequireStep(@)]
  /\ UNCHANGED DefaultOptions

VerifySplit(id) ==
  /\ At(id, "split")
  /\ calls' = [calls EXCEPT ![id] = VerifySplitStep(@)]
  /\ UNCHANGED DefaultOptions

VerifyVersion(id) ==
  /\ At(id, "version")
  /\ calls' = [calls EXCEPT ![id] = VerifyVersionStep(@)]
  /\ UNCHANGED DefaultOptions

VerifyParams(id) ==
  /\ At(id, "params")
  /\ calls' = [calls EXCEPT ![id] = VerifyParamsStep(@)]
  /\ UNCHANGED DefaultOptions

VerifySalt(id) ==
  /\ At(id, "salt")
  /\ calls' = [calls EXCEPT ![id] = VerifySaltStep(@)]
  /\ UNCHANGED DefaultOptions

VerifyHash(id) ==
  /\ At(id, "hash")
  /\ calls' = [calls EXCEPT ![id] = VerifyHashStep(@)]
  /\ UNCHANGED DefaultOptions

VerifyDerive(id) ==
  /\ At(id, "rederive")
  /\ calls' = [calls EXCEPT ![id] = VerifyDeriveStep(@)]
  /\ UNCHANGED DefaultOptions

VerifyCompareByte(id) ==
  /\ At(id, "compare")
  /\ CompareHasNext(calls[id])
  /\ calls' = [calls EXCEPT ![id] = VerifyCompareByteStep(@)]
  /\ UNCHANGED DefaultOptions

VerifyCompareEnd(id) ==
  /\ At(id, "compare")
  /\ ~CompareHasNext(calls[id])
  /\ calls' = [calls EXCEPT ![id] = VerifyCompareEndStep(@)]
  /\ UNCHANGED DefaultOptions

Next ==
  \/ \E id \in CallIds : HashCheckInputs(id)
  \/ \E id \in CallIds : HashDerive(id)
  \/ \E id \in CallIds : HashFormat(id)
  \/ \E id \in CallIds : VerifyRequire(id)
  \/ \E id \in CallIds : VerifySplit(id)
  \/ \E id \in CallIds : VerifyVersion(id)
  \/ \E id \in CallIds : VerifyParams(id)
  \/ \E id \in CallIds : VerifySalt(id)
  \/ \E id \in CallIds : VerifyHash(id)
  \/ \E id \in CallIds : VerifyDerive(id)
  \/ \E id \in CallIds : VerifyCompareByte(id)
  \/ \E id \in CallIds : VerifyCompareEnd(id)

Spec == Init /\ [][Next]_vars

\* The invocations that run concurrently: HashPassword with DefaultOptions
\* and with options of its own, VerifyPassword with the right and a wrong
\* password and on a credential of another version.
ConcurrentCalls ==
  { NewCall("hash", RefPassword, RefSalt, "DefaultOptions", ZeroOptions, << >>, NoOrigin),
    NewCall("hash", << >>, RefSalt, "DefaultOptions", ZeroOptions, << >>, NoOrigin),
    NewCall("hash", RefPassword, RefSalt, "local", RefOptions, << >>, NoOrigin),
    NewCall("verify", RefPassword, << >>, "local", ZeroOptions, RefKey, NoOrigin),
    NewCall("verify", << "p", "x" >>, << >>, "local", ZeroOptions, RefKey, NoOrigin),
    NewCall("verify", RefPassword, << >>, "local", ZeroOptions,
            Join(<< << >>, Argon2idText, << "v", "=", "1" >>, RefSegs[4], << "=" >>, << "=" >> >>),
            NoOrigin) }

\* NumCalls invocations in flight at once, their steps interleaved.
InitConcurrent ==
  /\ DefaultOptions = DefaultOptionsValue
  /\ calls \in [CallIds -> ConcurrentCalls]

SpecConcurrent == InitConcurrent /\ [][Next]_vars

(***************************************************************************)
(* Properties                                                              *)
(***************************************************************************)

\* The invocations of the state.
Calls == {calls[id] : id \in DOMAIN calls}

Finished(c) == c.pc \in {"done", "panic"}

IsPrefix(a, b) == Len(a) <= Len(b) /\ SubSeq(b, 1, Len(a)) = a

\* A verification of a stored credential, unchanged, with the password it
\* was made from.
IsRoundTrip(c) ==
  /\ c.op = "verify"
  /\ c.origin.kind = "stored"
  /\ c.origin.suffix = << >>
  /\ c.password = c.origin.password

\* C1: verifying an unchanged credential of HashPassword(p, s, o) with p
\* never panics and ends without error, and from the hash decoding on the
\* options re-derived with are o's: Memory, Time and Threads as parsed and
\* KeyLen as the length of the decoded hash.
C1_RoundTrip ==
  \A c \in Calls :
    IsRoundTrip(c) =>
      /\ c.pc # "panic"
      /\ c.pc = "done" => c.err = "nil"
      /\ c.pc \in {"rederive", "compare", "done"} =>
           /\ c.p = c.origin.opts
           /\ Len(c.hash) = c.origin.opts.KeyLen
           /\ c.saltBytes = Bytes(c.origin.salt)

\* C1 witness: a round trip with the largest Threads value has ended in
\* success.
C1_Witness ==
  \E c \in Calls :
    IsRoundTrip(c) /\ c.pc = "done" /\ c.err = "nil" /\ c.p.Threads = 255 /\ c.derived = 1

\* The outcome of a verification that went past every check before the
\* comparison: it re-derived.
PassedEarlierChecks(c) == c.op = "verify" /\ c.derived > 0

\* C2: a verification that passed all earlier checks ends without error if
\* the re-derived hash equals the decoded one, and with
\* ErrHashNotEqualPassword otherwise.
C2_OkIffEqual ==
  \A c \in Calls :
    PassedEarlierChecks(c) /\ Finished(c) =>
      /\ c.pc = "done"
      /\ c.err = (IF c.control = c.hash THEN "nil" ELSE "ErrHashNotEqualPassword")

\* The text "$argon2id$v=19$m=65536,t=1,p=4$c2FsdA$": what the credential
\* of the test (salt "salt", DefaultOptions) starts with.
TestVectorPrefix ==
  << "$", "a", "r", "g", "o", "n", "2", "i", "d", "$", "v", "=", "1", "9", "$",
     "m", "=", "6", "5", "5", "3", "6", ",", "t", "=", "1", ",", "p", "=", "4", "$",
     "c", "2", "F", "s", "d", "A", "$" >>

\* C3: for options that meet the invariant of Options (every field
\* positive), HashPassword ends with ErrPasswordRequired for an empty password,
\* else with ErrSaltRequired for an empty salt, in both cases without
\* deriving; else with a key of six segments: an empty one, "argon2id",
\* "v=19", the parameters as m, t, p, the encoded salt and the encoded
\* derived hash.
C3_HashPasswordReference ==
  \A c \in Calls :
    c.op = "hash" =>
      /\ c.pc # "panic"
      /\ c.pc = "done" =>
           IF c.password = << >>
           THEN c.err = "ErrPasswordRequired" /\ c.retKey = << >> /\ c.derived = 0
           ELSE IF c.salt = << >>
           THEN c.err = "ErrSaltRequired" /\ c.retKey = << >> /\ c.derived = 0
           ELSE
             LET o == Deref(c, DefaultOptionsValue)
             IN  /\ c.err = "nil"
                 /\ c.derived = 1
                 /\ c.optsRef = "DefaultOptions" /\ c.salt = << "s", "a", "l", "t" >>
                      => IsPrefix(TestVectorPrefix, c.retKey)
                 /\ Bind(Split(c.retKey), LAMBDA segs :
                      /\ Len(segs) = 6
                      /\ segs[1] = << >>
                      /\ segs[2] = Argon2idText
                      /\ segs[3] = << "v", "=", "1", "9" >>
                      /\ segs[4] = << "m", "=" >> \o FormatUint(o.Memory)
                                   \o << ",", "t", "=" >> \o FormatUint(o.Time)
                                   \o << ",", "p", "=" >> \o FormatUint(o.Threads)
                      /\ ScanParams(segs[4])
                           = [err |-> "nil", Memory |-> o.Memory, Time |-> o.Time,
                              Threads |-> o.Threads]
                      /\ segs[5] = EncodeToBase64String(Bytes(c.salt))
                      /\ DecodeBase64String(segs[5]).bytes = Bytes(c.salt)
                      /\ DecodeBase64String(segs[6]).bytes
                           = IDKey(Bytes(c.password), Bytes(c.salt),
                                   o.Time, o.Memory, o.Threads, o.KeyLen))

\* C3 witness: HashPassword has returned a key made with DefaultOptions.
C3_Witness ==
  \E c \in Calls :
    /\ c.op = "hash" /\ c.pc = "done" /\ c.err = "nil"
    /\ c.optsRef = "DefaultOptions" /\ c.salt = << "s", "a", "l", "t" >>

\* The checks of VerifyPassword in the order the claim gives, and the
\* errors each ends the invocation with.
PipelineOrder ==
  << "password", "key", "segments", "versionParse", "versionMatch", "paramsParse",
     "saltDecode", "hashDecode", "compare" >>

CheckErrors ==
  [check \in {PipelineOrder[k] : k \in 1..Len(PipelineOrder)} |->
     CASE check = "password"     -> {"ErrPasswordRequired"}
       [] check = "key"          -> {"ErrArgon2KeyRequired"}
       [] check = "segments"     -> {"ErrInvalidKeyLength"}
       [] check = "versionParse" -> ScanErrors
       [] check = "versionMatch" -> {"ErrArgonVersionMismatch"}
       [] check = "paramsParse"  -> ScanErrors
       [] check = "saltDecode"   -> {"CorruptInputError"}
       [] check = "hashDecode"   -> {"CorruptInputError"}
       [] check = "compare"      -> {"ErrHashNotEqualPassword"}]

\* C4: the checks a verification has made are the first ones of the fixed
\* order; an error is the error of the last check made and success comes
\* after all nine; the key is re-derived once, after the first eight; an
\* empty password, an empty key and a wrong segment count are reported
\* whatever follows, and so is a parsed version other than 19, which ends
\* the invocation before parameters, salt and hash are looked at.
C4_Pipeline ==
  \A c \in Calls :
    c.op = "verify" =>
      /\ IsPrefix(c.checks, PipelineOrder)
      /\ c.pc = "done" /\ c.err # "nil" =>
           c.checks # << >> /\ c.err \in CheckErrors[c.checks[Len(c.checks)]]
      /\ c.pc = "done" /\ c.err = "nil" => c.checks = PipelineOrder
      /\ c.derived <= 1
      /\ c.derived = 1 => Len(c.checks) >= 8
      /\ c.pc = "done" =>
           IF c.password = << >> THEN c.err = "ErrPasswordRequired"
           ELSE IF c.key = << >> THEN c.err = "ErrArgon2KeyRequired"
           ELSE Bind(Split(c.key), LAMBDA segs :
             IF Len(segs) # 6 THEN c.err = "ErrInvalidKeyLength"
             ELSE Bind(ScanVersion(segs[3]), LAMBDA r :
               /\ r.err # "nil" => c.err = r.err
               /\ r.err = "nil" /\ r.version # 19 =>
                    /\ c.err = "ErrArgonVersionMismatch"
                    /\ c.derived = 0
                    /\ c.checks = SubSeq(PipelineOrder, 1, 5)
               /\ r.err = "nil" /\ r.version = 19
                  /\ DecodeBase64String(segs[5]).err # "nil"
                  /\ c.err \notin ScanErrors =>
                    c.err = "CorruptInputError" /\ c.checks = SubSeq(PipelineOrder, 1, 7)))

\* C4 witness: a credential of version 1 whose salt and hash segments are
\* "=" has been refused for its version.
C4_Witness ==
  \E c \in Calls :
    /\ c.op = "verify" /\ c.pc = "done" /\ c.err = "ErrArgonVersionMismatch"
    /\ Len(c.decodedKey) = 6 /\ c.decodedKey[5] = << "=" >> /\ c.decodedKey[6] = << "=" >>

\* A verification, with the right password, of a stored credential that one
\* character was appended to.
IsAppended(c) ==
  /\ c.op = "verify"
  /\ c.origin.kind = "stored"
  /\ c.origin.suffix # << >>
  /\ c.password = c.origin.password

ExactNumber(text, signed) ==
  LET digits == IF signed /\ Len(text) > 0 /\ text[1] \in {"+", "-"} THEN Tail(text) ELSE text
  IN  Len(digits) > 0 /\ \A k \in 1..Len(digits) : digits[k] \in DigitChars

\* Whether seg is exactly of the form v=<int>.
ExactVersion(seg) ==
  Len(seg) > 2 /\ SubSeq(seg, 1, 2) = << "v", "=" >> /\ ExactNumber(SubSeq(seg, 3, Len(seg)), TRUE)

\* The texts between the commas of seg, in order, from index pos on.
RECURSIVE FieldsFrom(_, _, _)
FieldsFrom(seg, start, pos) ==
  IF pos > Len(seg) THEN << SubSeq(seg, start, Len(seg)) >>
  ELSE IF seg[pos] = "," THEN << SubSeq(seg, start, pos - 1) >> \o FieldsFrom(seg, pos + 1, pos + 1)
  ELSE FieldsFrom(seg, start, pos + 1)

\* Whether seg is exactly of the form m=<int>,t=<int>,p=<int>.
ExactParams(seg) ==
  Bind(FieldsFrom(seg, 1, 1), LAMBDA f :
    /\ Len(f) = 3
    /\ \A k \in 1..3 :
         /\ Len(f[k]) > 2
         /\ SubSeq(f[k], 1, 2) = << << "m", "t", "p" >>[k], "=" >>
         /\ ExactNumber(SubSeq(f[k], 3, Len(f[k])), FALSE))

\* C6: a verification of a six-segment credential whose version segment is
\* not exactly v=<int>, or whose version is 19 and whose parameter segment
\* is not exactly m=<int>,t=<int>,p=<int>, ends with a scan error and does
\* not derive.
C6_MalformedRejected ==
  \A c \in Calls :
    c.op = "verify" /\ Finished(c) /\ Len(c.decodedKey) = 6 =>
      LET malformed ==
            \/ ~ExactVersion(c.decodedKey[3])
            \/ c.version = 19 /\ ~ExactParams(c.decodedKey[4])
      IN  malformed => c.err \in ScanErrors /\ c.derived = 0

\* The results VerifyPassword names: success and the errors of the taxonomy.
VerifyResults ==
  {"nil", "ErrPasswordRequired", "ErrArgon2KeyRequired", "ErrInvalidKeyLength",
   "ErrArgonVersionMismatch", "CorruptInputError", "ErrHashNotEqualPassword"} \cup ScanErrors

\* C7: a verification never panics, derives only with positive Time,
\* Threads and KeyLen, and ends with success or a named error.
C7_Total ==
  \A c \in Calls :
    c.op = "verify" =>
      /\ c.pc # "panic"
      /\ c.derived > 0 => c.p.Time >= 1 /\ c.p.Threads >= 1 /\ c.p.KeyLen >= 1
      /\ c.pc = "done" => c.err \in VerifyResults

\* The invocation c as it was when it began.
Restart(c) == NewCall(c.op, c.password, c.salt, c.optsRef, c.opts, c.key, c.origin)

\* What an invocation returned (or that it panicked).
Outcome(c) == << c.pc, c.retKey, c.err >>

\* C8: with invocations interleaved, DefaultOptions keeps the value it was
\* declared with, and every invocation that has ended returned what it
\* returns when it runs alone.
C8_Independent ==
  /\ DefaultOptions = DefaultOptionsValue
  /\ \A c \in Calls :
       Finished(c) => Outcome(c) = Outcome(RunAlone(Restart(c), DefaultOptionsValue))

\* C8 witness: two invocations have ended, a HashPassword that read
\* DefaultOptions and a successful VerifyPassword.
C8_Witness ==
  \E c1, c2 \in Calls :
    /\ c1.op = "hash" /\ c1.optsRef = "DefaultOptions" /\ c1.pc = "done" /\ c1.err = "nil"
    /\ c2.op = "verify" /\ c2.pc = "done" /\ c2.err = "nil"

\* C9: when the comparison begins the two hashes have the same length, and
\* when it has ended it has folded as many byte pairs as the hash has
\* bytes, whether and wherever the hashes differ.
C9_ConstantTime ==
  \A c \in Calls :
    c.op = "verify" =>
      /\ c.pc = "compare" => Len(c.control) = Len(c.hash) /\ c.cmpSteps = c.i - 1
      /\ c.pc = "done" /\ c.derived = 1 => c.cmpSteps = Len(c.hash)

\* C9 witness: a comparison of hashes that differ in the first byte has
\* ended after folding all of several bytes.
C9_Witness ==
  \E c \in Calls :
    /\ c.op = "verify" /\ c.pc = "done" /\ c.err = "ErrHashNotEqualPassword"
    /\ Len(c.hash) >= 2 /\ c.hash[1] # c.control[1] /\ c.cmpSteps = Len(c.hash)

\* The credential of c with its first two segments replaced by the empty
\* text and "argon2id".
CanonicalKey(c) == Join(<< << >>, Argon2idText >> \o SubSeq(Split(c.key), 3, 6))

\* Whether c verifies a six-segment credential whose first two segments
\* are not the ones HashPassword writes.
HasOtherPrefix(c) ==
  /\ c.op = "verify"
  /\ Bind(Split(c.key), LAMBDA segs :
       Len(segs) = 6 /\ (segs[1] # << >> \/ segs[2] # Argon2idText))

\* C10: a verification of a six-segment credential ends as the
\* verification of the same credential with the first two segments
\* HashPassword writes.
C10_PrefixIgnored ==
  \A c \in Calls :
    HasOtherPrefix(c) /\ Finished(c) =>
      Bind(RunAlone(NewCall("verify", c.password, << >>, "local", ZeroOptions,
                            CanonicalKey(c), NoOrigin), DefaultOptionsValue),
           LAMBDA r : << c.pc, c.err >> = << r.pc, r.err >>)

\* C10 witness: a credential whose first two segments are "x" has been
\* verified with success.
C10_Witness ==
  \E c \in Calls :
    /\ c.op = "verify" /\ c.pc = "done" /\ c.err = "nil"
    /\ Len(c.decodedKey) = 6 /\ c.decodedKey[1] = << "x" >> /\ c.decodedKey[2] = << "x" >>

====
